---- MODULE Spec2Model ----
(***************************************************************************)
(* HRMS Lite (backend/main.py, backend/models.py): the employee registry   *)
(* and the attendance ledger on top of two document-store collections.     *)
(*                                                                         *)
(* Every request handler is a coroutine.  Between two awaits a handler     *)
(* runs without interruption; at every await (one store operation) the     *)
(* handlers of other requests may run.  One action of this module is one   *)
(* store operation of one handler together with the synchronous code that  *)
(* surrounds it (the code before the first await is folded into the first  *)
(* store operation, the code after the last await into the last one).      *)
(***************************************************************************)
EXTENDS Integers, Sequences, FiniteSets, TLC

VARIABLES
    employees,    \* db.employees: a set of documents
    attendances,  \* db.attendances: a set of documents
    empSeq,       \* number of ObjectIds generated for db.employees
    attSeq,       \* number of ObjectIds generated for db.attendances
    pc,           \* pc[p]: the await at which handler p is suspended
    req,          \* req[p]: the request handler p is serving
    loc,          \* loc[p]: the local variables handler p keeps across awaits
    resp,         \* the response sent by the last step (NoResp when it sent none)
    stage         \* stage[t]: the history of the requests that named identifier t

vars == <<employees, attendances, empSeq, attSeq, pc, req, loc, resp, stage>>

----------------------------------------------------------------------------
(* Bounds of the model. *)

\* at most MaxEmp employee documents are ever inserted
MaxEmp == 2
\* at most MaxAtt attendance documents are ever inserted
MaxAtt == 2

\* the request handlers that may be in flight at the same time
Procs == {"p1", "p2"}

----------------------------------------------------------------------------
(* Strings that the code compares or orders are sequences of character     *)
(* codes; the store orders strings by comparing them code by code.         *)

Dash == 45
Zero == 48

\* the decimal digits of n, zero padded to width w, as character codes
RECURSIVE Pad(_, _)
Pad(n, w) ==
    IF w = 0 THEN <<>> ELSE Append(Pad(n \div 10, w - 1), Zero + (n % 10))

\* date.strftime("%Y-%m-%d")
StrftimeDate(d) ==
    Pad(d.y, 4) \o <<Dash>> \o Pad(d.m, 2) \o <<Dash>> \o Pad(d.d, 2)

\* a < b in the store's string order (code by code, a proper prefix first)
RECURSIVE StrLess(_, _)
StrLess(a, b) ==
    IF b = <<>> THEN FALSE
    ELSE IF a = <<>> THEN TRUE
    ELSE IF Head(a) # Head(b) THEN Head(a) < Head(b)
    ELSE StrLess(Tail(a), Tail(b))

\* datetime.utcnow() when the n-th document of a collection is built.  The
\* code compares time stamps only within one collection (the sort of the
\* employee List), so a reading is modelled by the ordinal of its document:
\* later documents carry later stamps.
UtcNow(n) == n

\* datetime.strftime("%Y-%m-%d %H:%M:%S"): a string, no longer a datetime
StrftimeTs(t) == [str |-> t]

----------------------------------------------------------------------------
(* Identifiers.  A store-generated ObjectId is modelled by its ordinal; a  *)
(* request names it by a text: 24 hexadecimal digits in lower case (the    *)
(* form str(ObjectId) produces) or in upper case, or some other text.      *)

\* str(ObjectId)
Str(oid) == [form |-> "lower", oid |-> oid]
Upper(oid) == [form |-> "upper", oid |-> oid]
Malformed == [form |-> "bad", oid |-> 0]

\* ObjectId.is_valid(text)
IsValid(t) == t.form \in {"lower", "upper"}
\* ObjectId(text)
ObjectId(t) == t.oid

\* the identifier texts requests carry: the texts of the first two ids the
\* store generates, the upper-case spelling of the first, a malformed one
IdTexts == {Str(1), Str(2), Upper(1), Malformed}

----------------------------------------------------------------------------
(* Request inputs. *)

\* EmployeeCreate bodies that pass the field validation of EmployeeBase:
\* Jack has John's employee_id, Jill has John's email, Jack and Jill share
\* no key
John ==
    [employee_id |-> "EMP001", full_name |-> "John Doe",
     email |-> "john@example.com", department |-> "Engineering"]
Jack ==
    [employee_id |-> "EMP001", full_name |-> "Jack Poe",
     email |-> "jack@example.com", department |-> "Sales"]
Jill ==
    [employee_id |-> "EMP003", full_name |-> "Jill Moe",
     email |-> "john@example.com", department |-> "Sales"]
Candidates == {John, Jack, Jill}

\* the dates Mark requests carry (already parsed to datetime.date)
Dates == { [y |-> 2024, m |-> 1, d |-> 9], [y |-> 2024, m |-> 1, d |-> 10] }

\* the status texts Mark requests carry
Statuses == {"Present", "Absent", "Late"}

\* the ?date= filters of attendance List: absent, empty, the normalized
\* form of each date, and a spelling of a date that is not normalized
NoFilter == [set |-> FALSE, text |-> <<>>]
Filter(s) == [set |-> TRUE, text |-> s]
Filters ==
    {NoFilter, Filter(<<>>)} \cup {Filter(StrftimeDate(d)) : d \in Dates}
        \cup {Filter(<<50, 48, 50, 52, 45, 49, 45, 57>>)}

----------------------------------------------------------------------------
(* Handler state. *)

None == [none |-> TRUE]
NoReq == [op |-> "none"]
NoResp == [op |-> "none", code |-> 0]

\* no request has named the identifier yet
NoStage == [at |-> "none", cand |-> None, data |-> None]

InFlight(op) == {p \in Procs : req[p].op = op}

\* The bound on inserts: an Add or a Mark is drawn only while the documents
\* inserted so far (seq) and the inserting requests in flight stay below max.
MayInsert(seq, inserting, max) == seq + Cardinality(inserting) < max

Init ==
    /\ employees = {}
    /\ attendances = {}
    /\ empSeq = 0
    /\ attSeq = 0
    /\ pc = [p \in Procs |-> "idle"]
    /\ req = [p \in Procs |-> NoReq]
    /\ loc = [p \in Procs |-> None]
    /\ resp = NoResp
    /\ stage = [t \in IdTexts |-> NoStage]

----------------------------------------------------------------------------
(* Responses.  code is the HTTP status; body holds either the error kind   *)
(* or the payload of the success.                                          *)

Resp(op, arg, code, body) == [op |-> op, arg |-> arg, code |-> code, body |-> body]
Error(kind) == [error |-> kind]

\* The history of each identifier text, read off the responses sent so far
\* (it is no state of the program):
\*   added    Add returned the identifier, with body cand and response data
\*   marked   then a Mark of it succeeded
\*   rejected then a Mark of it was refused as a duplicate
\*   gone     then a Delete of it succeeded
\*   deleted  a Delete of it succeeded at some other point
\* A Delete counts for every text that spells the ObjectId it named.
Observe(st, r) ==
    IF r.op = "Add" /\ r.code = 201 /\ r.body.data._id \in IdTexts
    THEN [st EXCEPT ![r.body.data._id] =
             [at |-> "added", cand |-> r.arg, data |-> r.body.data]]
    ELSE IF r.op = "Mark" /\ r.code = 201 /\ st[r.arg.employee_id].at = "added"
    THEN [st EXCEPT ![r.arg.employee_id].at = "marked"]
    ELSE IF r.op = "Mark" /\ r.code = 400 /\ r.body = Error("DuplicateRecord")
            /\ st[r.arg.employee_id].at = "marked"
    THEN [st EXCEPT ![r.arg.employee_id].at = "rejected"]
    ELSE IF r.op = "Delete" /\ r.code = 200
    THEN [t \in IdTexts |->
             IF IsValid(t) /\ ObjectId(t) = ObjectId(r.arg)
             THEN [at |-> IF st[t].at = "rejected" THEN "gone" ELSE "deleted",
                   cand |-> None, data |-> None]
             ELSE st[t]]
    ELSE st

\* handler p sends response r and ends
Finish(p, r) ==
    /\ pc' = [pc EXCEPT ![p] = "idle"]
    /\ req' = [req EXCEPT ![p] = NoReq]
    /\ loc' = [loc EXCEPT ![p] = None]
    /\ resp' = r
    /\ stage' = Observe(stage, r)

\* handler p, serving request rq, suspends at await label with locals l
Suspend(p, label, rq, l) ==
    /\ pc' = [pc EXCEPT ![p] = label]
    /\ req' = [req EXCEPT ![p] = rq]
    /\ loc' = [loc EXCEPT ![p] = l]
    /\ resp' = NoResp
    /\ stage' = stage

----------------------------------------------------------------------------
(* The document store. *)

\* collection.find_one(filter): the matching documents, of which the store
\* returns one, or None when there is none
Matching(coll, field, value) == {doc \in coll : doc[field] = value}

\* db.employees.find_one({"_id": oid}); _id is unique in a collection
FindById(coll, oid) ==
    IF Matching(coll, "_id", oid) = {} THEN None
    ELSE CHOOSE doc \in coll : doc._id = oid

\* the sequences that list every element of S exactly once
RECURSIVE Perms(_)
Perms(S) ==
    IF S = {} THEN {<<>>}
    ELSE UNION {{<<x>> \o s : s \in Perms(S \ {x})} : x \in S}

\* the sort with the direction left out: ascending
SortDateDesc_Ascending(S) ==
    {s \in Perms(S) :
        \A i \in 1..Len(s) : \A j \in 1..Len(s) :
            i < j => ~StrLess(s[j].date, s[i].date)}

\* cursor.sort("date", -1): the orders in which the store may return docs,
\* any order of S that never puts a smaller date before a larger one
SortDateDesc(S) ==
    {s \in Perms(S) :
        \A i \in 1..Len(s) : \A j \in 1..Len(s) :
            i < j => ~StrLess(s[i].date, s[j].date)}

\* cursor.sort("created_at", -1)
SortCreatedDesc(S) ==
    {s \in Perms(S) :
        \A i \in 1..Len(s) : \A j \in 1..Len(s) :
            i < j => s[i].created_at >= s[j].created_at}

----------------------------------------------------------------------------
(* Employee Registry. *)

\* the employee document as the responses show it: _id and created_at as text
FormatEmployee(e) ==
    [_id |-> Str(e._id), employee_id |-> e.employee_id, full_name |-> e.full_name,
     email |-> e.email, department |-> e.department,
     created_at |-> StrftimeTs(e.created_at)]

\* GET /api/employees
GetAllEmployees(p) ==
    /\ pc[p] = "idle"
    /\ \E emps \in SortCreatedDesc(employees) :
        Finish(p, Resp("EmployeeList", None, 200,
            [data |-> [i \in 1..Len(emps) |-> FormatEmployee(emps[i])],
             count |-> Len(emps)]))
    /\ UNCHANGED <<employees, attendances, empSeq, attSeq>>

\* the document with department filled from the wrong field
NewEmployee_DepartmentFromName(oid, c, now) ==
    [_id |-> oid, employee_id |-> c.employee_id, full_name |-> c.full_name,
     email |-> c.email, department |-> c.full_name, created_at |-> now]

\* the document add_employee builds from the request body
NewEmployee(oid, c, now) ==
    [_id |-> oid, employee_id |-> c.employee_id, full_name |-> c.full_name,
     email |-> c.email, department |-> c.department, created_at |-> now]

\* POST /api/employees, up to the employee_id lookup
AddEmployee(p, c) ==
    /\ pc[p] = "idle"
    /\ MayInsert(empSeq, InFlight("Add"), MaxEmp)
    /\ IF Matching(employees, "employee_id", c.employee_id) # {}
       THEN Finish(p, Resp("Add", c, 400, Error("DuplicateKeyError")))
       ELSE Suspend(p, "add_email", [op |-> "Add", arg |-> c], None)
    /\ UNCHANGED <<employees, attendances, empSeq, attSeq>>

\* the email lookup made on the employee_id field
AddCheckEmail_ByEmployeeId(p) ==
    /\ pc[p] = "add_email"
    /\ IF Matching(employees, "employee_id", req[p].arg.employee_id) # {}
       THEN Finish(p, Resp("Add", req[p].arg, 400, Error("DuplicateKeyError")))
       ELSE Suspend(p, "add_insert", req[p], None)
    /\ UNCHANGED <<employees, attendances, empSeq, attSeq>>

\* add_employee: the email lookup
AddCheckEmail(p) ==
    /\ pc[p] = "add_email"
    /\ IF Matching(employees, "email", req[p].arg.email) # {}
       THEN Finish(p, Resp("Add", req[p].arg, 400, Error("DuplicateKeyError")))
       ELSE Suspend(p, "add_insert", req[p], None)
    /\ UNCHANGED <<employees, attendances, empSeq, attSeq>>

\* add_employee: stamp created_at and insert
AddInsert(p) ==
    /\ pc[p] = "add_insert"
    /\ empSeq' = empSeq + 1
    /\ employees' = employees \cup {NewEmployee(empSeq', req[p].arg, UtcNow(empSeq'))}
    /\ Suspend(p, "add_reread", req[p], [inserted_id |-> empSeq'])
    /\ UNCHANGED <<attendances, attSeq>>

\* add_employee: read the document back and answer; when it is gone
\* already, formatting None raises and the handler answers 500
AddReread(p) ==
    /\ pc[p] = "add_reread"
    /\ LET created == FindById(employees, loc[p].inserted_id)
       IN IF created = None
          THEN Finish(p, Resp("Add", req[p].arg, 500, Error("StoreError")))
          ELSE Finish(p, Resp("Add", req[p].arg, 201,
                   [data |-> FormatEmployee(created)]))
    /\ UNCHANGED <<employees, attendances, empSeq, attSeq>>

\* GET /api/employees/{employee_id}
GetEmployee(p, id) ==
    /\ pc[p] = "idle"
    /\ IF ~IsValid(id)
       THEN Finish(p, Resp("Get", id, 400, Error("InvalidIdentifier")))
       ELSE LET employee == FindById(employees, ObjectId(id))
            IN IF employee = None
               THEN Finish(p, Resp("Get", id, 404, Error("NotFound")))
               ELSE Finish(p, Resp("Get", id, 200,
                        [data |-> FormatEmployee(employee)]))
    /\ UNCHANGED <<employees, attendances, empSeq, attSeq>>

\* DELETE /api/employees/{employee_id}, up to the lookup
DeleteEmployee(p, id) ==
    /\ pc[p] = "idle"
    /\ IF ~IsValid(id)
       THEN Finish(p, Resp("Delete", id, 400, Error("InvalidIdentifier")))
       ELSE LET employee == FindById(employees, ObjectId(id))
            IN IF employee = None
               THEN Finish(p, Resp("Delete", id, 404, Error("NotFound")))
               ELSE Suspend(p, "del_employee", [op |-> "Delete", arg |-> id],
                        [employee |-> employee])
    /\ UNCHANGED <<employees, attendances, empSeq, attSeq>>

\* the two deletions in the other order: the attendance records go first
DeleteOne_RecordsFirst(p) ==
    /\ pc[p] = "del_employee"
    /\ attendances' = attendances \ Matching(attendances, "employee_id", req[p].arg)
    /\ Suspend(p, "del_attendances", req[p], loc[p])
    /\ UNCHANGED <<employees, empSeq, attSeq>>

\* delete_one filtering _id by the text, which no document's ObjectId equals
DeleteOne_ByText(p) ==
    /\ pc[p] = "del_employee"
    /\ employees' = employees
    /\ Suspend(p, "del_attendances", req[p], loc[p])
    /\ UNCHANGED <<attendances, empSeq, attSeq>>

\* delete_employee: db.employees.delete_one({"_id": ObjectId(employee_id)})
DeleteOne(p) ==
    /\ pc[p] = "del_employee"
    /\ employees' = employees \ Matching(employees, "_id", ObjectId(req[p].arg))
    /\ Suspend(p, "del_attendances", req[p], loc[p])
    /\ UNCHANGED <<attendances, empSeq, attSeq>>

\* delete_many with an empty filter: every attendance record goes
DeleteMany_NoFilter(p) ==
    /\ pc[p] = "del_attendances"
    /\ attendances' = {}
    /\ Finish(p, Resp("Delete", req[p].arg, 200,
           [message |-> loc[p].employee.full_name]))
    /\ UNCHANGED <<employees, empSeq, attSeq>>

\* delete_employee: db.attendances.delete_many({"employee_id": employee_id})
\* with the text of the request, then the answer
DeleteMany(p) ==
    /\ pc[p] = "del_attendances"
    /\ attendances' = attendances \ Matching(attendances, "employee_id", req[p].arg)
    /\ Finish(p, Resp("Delete", req[p].arg, 200,
           [message |-> loc[p].employee.full_name]))
    /\ UNCHANGED <<employees, empSeq, attSeq>>

----------------------------------------------------------------------------
(* Attendance Ledger. *)

\* AttendanceBase.status: Field(pattern="^(Present|Absent)$"), checked when
\* the request body is parsed, before mark_attendance runs
StatusPattern(s) == s \in {"Present", "Absent"}

\* the document mark_attendance builds
NewAttendance(oid, a, now) ==
    [_id |-> oid, employee_id |-> a.employee_id, date |-> StrftimeDate(a.date),
     status |-> a.status, marked_at |-> now]

\* the lookup without its date
Existing_AnyDate(employee_id, date_str) ==
    Matching(attendances, "employee_id", employee_id)

\* the records of employee_id (a text) on date_str
Existing(employee_id, date_str) ==
    {r \in Matching(attendances, "employee_id", employee_id) : r.date = date_str}

\* the handler with no check of status, in the model or in the handler
MarkAttendance_NoStatusCheck(p, a) ==
    /\ pc[p] = "idle"
    /\ MayInsert(attSeq, InFlight("Mark"), MaxAtt)
    /\ IF ~IsValid(a.employee_id)
       THEN Finish(p, Resp("Mark", a, 400, Error("InvalidIdentifier")))
       ELSE LET employee == FindById(employees, ObjectId(a.employee_id))
            IN IF employee = None
               THEN Finish(p, Resp("Mark", a, 404, Error("NotFound")))
               ELSE Suspend(p, "mark_existing", [op |-> "Mark", arg |-> a],
                        [employee |-> employee])
    /\ UNCHANGED <<employees, attendances, empSeq, attSeq>>

\* POST /api/attendance, up to the employee lookup
MarkAttendance(p, a) ==
    /\ pc[p] = "idle"
    /\ MayInsert(attSeq, InFlight("Mark"), MaxAtt)
    /\ IF ~StatusPattern(a.status)
       THEN Finish(p, Resp("Mark", a, 422, Error("ValidationError")))
       ELSE IF ~IsValid(a.employee_id)
       THEN Finish(p, Resp("Mark", a, 400, Error("InvalidIdentifier")))
       ELSE LET employee == FindById(employees, ObjectId(a.employee_id))
            IN IF employee = None
               THEN Finish(p, Resp("Mark", a, 404, Error("NotFound")))
               ELSE IF a.status \notin {"Present", "Absent"}
               THEN Finish(p, Resp("Mark", a, 400, Error("ValidationError")))
               ELSE Suspend(p, "mark_existing", [op |-> "Mark", arg |-> a],
                        [employee |-> employee])
    /\ UNCHANGED <<employees, attendances, empSeq, attSeq>>

\* the lookup that drops the record it finds before it refuses the Mark
MarkFindExisting_DropExisting(p) ==
    /\ pc[p] = "mark_existing"
    /\ IF Existing(req[p].arg.employee_id, StrftimeDate(req[p].arg.date)) # {}
       THEN /\ attendances' = attendances
                   \ Existing(req[p].arg.employee_id, StrftimeDate(req[p].arg.date))
            /\ Finish(p, Resp("Mark", req[p].arg, 400, Error("DuplicateRecord")))
       ELSE /\ attendances' = attendances
            /\ Suspend(p, "mark_insert", req[p], loc[p])
    /\ UNCHANGED <<employees, empSeq, attSeq>>

\* mark_attendance: the lookup of a record for this employee_id and date
MarkFindExisting(p) ==
    /\ pc[p] = "mark_existing"
    /\ IF Existing(req[p].arg.employee_id, StrftimeDate(req[p].arg.date)) # {}
       THEN Finish(p, Resp("Mark", req[p].arg, 400, Error("DuplicateRecord")))
       ELSE Suspend(p, "mark_insert", req[p], loc[p])
    /\ UNCHANGED <<employees, attendances, empSeq, attSeq>>

\* mark_attendance: stamp marked_at and insert
MarkInsert(p) ==
    /\ pc[p] = "mark_insert"
    /\ attSeq' = attSeq + 1
    /\ attendances' = attendances \cup {NewAttendance(attSeq', req[p].arg, UtcNow(attSeq'))}
    /\ Suspend(p, "mark_reread", req[p],
           [employee |-> loc[p].employee, inserted_id |-> attSeq'])
    /\ UNCHANGED <<employees, empSeq>>

\* mark_attendance: read the record back and answer; when the cascade of a
\* Delete removed it already, formatting None raises and the answer is 500
MarkReread(p) ==
    /\ pc[p] = "mark_reread"
    /\ LET created == FindById(attendances, loc[p].inserted_id)
       IN IF created = None
          THEN Finish(p, Resp("Mark", req[p].arg, 500, Error("StoreError")))
          ELSE Finish(p, Resp("Mark", req[p].arg, 201,
                   [data |-> [_id |-> Str(created._id),
                              employee_id |-> created.employee_id,
                              date |-> created.date,
                              status |-> created.status,
                              marked_at |-> StrftimeTs(created.marked_at),
                              employee_name |-> loc[p].employee.full_name]]))
    /\ UNCHANGED <<employees, attendances, empSeq, attSeq>>

\* get_attendance: query = {} unless date is given and not empty
Query(f) ==
    IF f.set /\ f.text # <<>>
    THEN {r \in attendances : r.date = f.text}
    ELSE attendances

\* GET /api/attendance?date=, up to the read of the records
GetAttendance(p, f) ==
    /\ pc[p] = "idle"
    /\ \E records \in SortDateDesc(Query(f)) :
        Suspend(p, "list_join", [op |-> "List", arg |-> f], [records |-> records])
    /\ UNCHANGED <<employees, attendances, empSeq, attSeq>>

\* get_attendance: employees.get(record["employee_id"], {}) on the dict that
\* is keyed by str(emp["_id"]), and the fields taken from it
Joined(record, emps) ==
    LET hit == {e \in emps : Str(e._id) = record.employee_id}
    IN [_id |-> Str(record._id),
        employee_id |-> record.employee_id,
        employee_name |->
            IF hit = {} THEN "Unknown" ELSE (CHOOSE e \in hit : TRUE).full_name,
        employee_details |->
            [employee_id |->
                IF hit = {} THEN "N/A" ELSE (CHOOSE e \in hit : TRUE).employee_id,
             department |->
                IF hit = {} THEN "N/A" ELSE (CHOOSE e \in hit : TRUE).department],
        date |-> record.date,
        status |-> record.status,
        marked_at |-> StrftimeTs(record.marked_at)]

\* get_attendance: the read of all employees, the join and the answer
GetAttendanceJoin(p) ==
    /\ pc[p] = "list_join"
    /\ LET records == loc[p].records
       IN Finish(p, Resp("List", req[p].arg, 200,
              [data |-> [i \in 1..Len(records) |-> Joined(records[i], employees)],
               count |-> Len(records)]))
    /\ UNCHANGED <<employees, attendances, empSeq, attSeq>>

\* GET /api/attendance/employee/{employee_id}, up to the employee lookup
GetEmployeeAttendance(p, id) ==
    /\ pc[p] = "idle"
    /\ IF ~IsValid(id)
       THEN Finish(p, Resp("ListForEmployee", id, 400, Error("InvalidIdentifier")))
       ELSE LET employee == FindById(employees, ObjectId(id))
            IN IF employee = None
               THEN Finish(p, Resp("ListForEmployee", id, 404, Error("NotFound")))
               ELSE Suspend(p, "lfe_records", [op |-> "ListForEmployee", arg |-> id],
                        [employee |-> employee])
    /\ UNCHANGED <<employees, attendances, empSeq, attSeq>>

\* get_employee_attendance: the read of the records and the answer
GetEmployeeAttendanceRecords(p) ==
    /\ pc[p] = "lfe_records"
    /\ \E records \in SortDateDesc(Matching(attendances, "employee_id", req[p].arg)) :
        Finish(p, Resp("ListForEmployee", req[p].arg, 200,
            [employee |-> [_id |-> Str(loc[p].employee._id),
                           employee_id |-> loc[p].employee.employee_id,
                           full_name |-> loc[p].employee.full_name,
                           email |-> loc[p].employee.email,
                           department |-> loc[p].employee.department],
             data |-> [i \in 1..Len(records) |->
                          [_id |-> Str(records[i]._id),
                           date |-> records[i].date,
                           status |-> records[i].status,
                           marked_at |-> StrftimeTs(records[i].marked_at)]],
             count |-> Len(records)]))
    /\ UNCHANGED <<employees, attendances, empSeq, attSeq>>

----------------------------------------------------------------------------
(* The requests. *)

MarkBody(t, d, s) == [employee_id |-> t, date |-> d, status |-> s]

\* every request the model draws: in.ids, in.cands, in.marks and in.filters
\* are the identifier texts, Add bodies, Mark bodies and List filters
AllInputs ==
    [ids |-> IdTexts,
     cands |-> Candidates,
     marks |-> {MarkBody(t, d, s) : t \in IdTexts, d \in Dates, s \in Statuses},
     filters |-> Filters]

\* the requests drawn when two handlers run concurrently: every candidate,
\* and the first employee by the identifier text Add returns for it
RaceInputs ==
    [ids |-> {Str(1)},
     cands |-> Candidates,
     marks |-> {MarkBody(Str(1), d, "Present") : d \in Dates},
     filters |-> {NoFilter}]

\* one step of handler p, its request drawn from in
Step(p, in) ==
    \/ GetAllEmployees(p)
    \/ \E c \in in.cands : AddEmployee(p, c)
    \/ AddCheckEmail(p)
    \/ AddInsert(p)
    \/ AddReread(p)
    \/ \E id \in in.ids : GetEmployee(p, id)
    \/ \E id \in in.ids : DeleteEmployee(p, id)
    \/ DeleteOne(p)
    \/ DeleteMany(p)
    \/ \E a \in in.marks : MarkAttendance(p, a)
    \/ MarkFindExisting(p)
    \/ MarkInsert(p)
    \/ MarkReread(p)
    \/ \E f \in in.filters : GetAttendance(p, f)
    \/ GetAttendanceJoin(p)
    \/ \E id \in in.ids : GetEmployeeAttendance(p, id)
    \/ GetEmployeeAttendanceRecords(p)

\* the response sent by the last step leaves the server; until it has, no
\* handler steps (the order of the two is of no effect on the store)
Deliver ==
    /\ resp # NoResp
    /\ resp' = NoResp
    /\ UNCHANGED <<employees, attendances, empSeq, attSeq, pc, req, loc, stage>>

\* requests are served concurrently: any handler may take the next step
Next == Deliver \/ (resp = NoResp /\ \E p \in Procs : Step(p, RaceInputs))

Spec == Init /\ [][Next]_vars

\* requests are served one after another: a single handler, every input
SeqNext == Deliver \/ (resp = NoResp /\ Step("p1", AllInputs))

SeqSpec == Init /\ [][SeqNext]_vars

----------------------------------------------------------------------------
(* Claims. *)

\* the handlers that take a step (leave or reach an await) in this step
Resumed(p) == pc[p] # "idle" /\ pc'[p] # pc[p]
Suspended(p) == pc[p] = "idle" /\ pc'[p] # "idle"

\* the request that arrives in this step, NoReq when the step serves a
\* request that arrived earlier: it either suspends at its first await or is
\* answered at once
Arriving ==
    IF \E p \in Procs : Suspended(p)
    THEN req'[CHOOSE p \in Procs : Suspended(p)]
    ELSE IF resp'.op # "none" /\ pc' = pc
    THEN [op |-> resp'.op, arg |-> resp'.arg]
    ELSE NoReq

\* the store is left as it is
StoreUnchanged == employees' = employees /\ attendances' = attendances

\* the calendar date a stored YYYY-MM-DD text denotes, read digit by digit
DateOfText(s) ==
    IF Len(s) # 10 THEN [y |-> 0, m |-> 0, d |-> 0]
    ELSE [y |-> (s[1] - 48) * 1000 + (s[2] - 48) * 100 + (s[3] - 48) * 10 + (s[4] - 48),
          m |-> (s[6] - 48) * 10 + (s[7] - 48),
          d |-> (s[9] - 48) * 10 + (s[10] - 48)]

\* C1: in every reachable state, under any interleaving of the requests, no
\* two distinct attendance records have the same employee_id and the same
\* date.
C1_OneRecordPerEmployeeAndDate ==
    \A r1 \in attendances : \A r2 \in attendances :
        (r1.employee_id = r2.employee_id /\ r1.date = r2.date) => r1 = r2

\* C2: in every reachable state, under any interleaving of the requests, no
\* two distinct employee records have the same employee_id, and no two have
\* the same email.
C2_UniqueEmployeeIdAndEmail ==
    \A e1 \in employees : \A e2 \in employees :
        (e1.employee_id = e2.employee_id \/ e1.email = e2.email) => e1 = e2

\* a Delete of identifier t has returned success
Deleted(t) == stage[t].at \in {"gone", "deleted"}

\* C3: once Delete(id) has returned success, every employee List sent
\* afterwards omits that employee, and every attendance List issued
\* afterwards reads no record whose employee_id is id, whatever requests were
\* in flight while the Delete ran.
C3_DeleteRemovesFromEveryList ==
    [][\A t \in IdTexts : Deleted(t) =>
          /\ resp'.op = "EmployeeList" =>
                \A i \in 1..Len(resp'.body.data) :
                    resp'.body.data[i]._id # Str(ObjectId(t))
          /\ \A p \in Procs : (pc[p] = "idle" /\ pc'[p] = "list_join") =>
                \A i \in 1..Len(loc'[p].records) :
                    loc'[p].records[i].employee_id # t]_vars

\* the keys of candidate c that the store holds already
IdTaken(c) == \E e \in employees : e.employee_id = c.employee_id
EmailTaken(c) == \E e \in employees : e.email = c.email

\* C4: requests served one at a time.  An Add whose employee_id is in the
\* store is answered 400 DuplicateKeyError at once; one whose email (only) is
\* in the store goes on to the email lookup and is answered 400
\* DuplicateKeyError there; neither changes the employees collection, and no
\* Add inserts a candidate whose employee_id or email the store holds,
\* whatever its other fields.
C4_DuplicateAddRejected ==
    [][/\ (Arriving.op = "Add" /\ IdTaken(Arriving.arg)) =>
            /\ resp' = Resp("Add", Arriving.arg, 400, Error("DuplicateKeyError"))
            /\ StoreUnchanged
       /\ (Arriving.op = "Add" /\ EmailTaken(Arriving.arg) /\ ~IdTaken(Arriving.arg)) =>
            /\ \E p \in Procs : pc'[p] = "add_email"
            /\ StoreUnchanged
       /\ \A p \in Procs :
            /\ (pc[p] = "add_email" /\ Resumed(p) /\ EmailTaken(req[p].arg)) =>
                 /\ resp' = Resp("Add", req[p].arg, 400, Error("DuplicateKeyError"))
                 /\ StoreUnchanged
            /\ (pc[p] = "add_insert" /\ Resumed(p)) =>
                 ~IdTaken(req[p].arg) /\ ~EmailTaken(req[p].arg)]_vars

\* an Add was refused for its email alone: the store holds an employee with
\* that email whose employee_id, full_name and department all differ
C4_Witness ==
    /\ resp.op = "Add" /\ resp.code = 400
    /\ \E e \in employees :
        /\ e.email = resp.arg.email
        /\ e.employee_id # resp.arg.employee_id
        /\ e.full_name # resp.arg.full_name
        /\ e.department # resp.arg.department

\* the stored records of the employee_id text and calendar date of Mark body a
SameDay(a) ==
    {r \in attendances : r.employee_id = a.employee_id /\ DateOfText(r.date) = a.date}

\* C5: requests served one at a time.  A Mark of an existing employee with a
\* valid status goes on to the duplicate lookup.  There, if a record with the
\* same employee_id and date exists, it is answered 400 DuplicateRecord and
\* adds nothing; otherwise (records of the same employee on other dates, or of
\* other employees on the same date, may exist) it inserts exactly one record,
\* with its employee_id, date and status, and is answered 201.
C5_MarkDuplicateOrInsert ==
    [][/\ (/\ Arriving.op = "Mark"
           /\ Arriving.arg.status \in {"Present", "Absent"}
           /\ IsValid(Arriving.arg.employee_id)
           /\ \E e \in employees : e._id = ObjectId(Arriving.arg.employee_id)) =>
            /\ \E p \in Procs : Suspended(p) /\ pc'[p] = "mark_existing"
            /\ StoreUnchanged
       /\ \A p \in Procs :
            /\ (pc[p] = "mark_existing" /\ Resumed(p)) =>
                 /\ StoreUnchanged
                 /\ IF SameDay(req[p].arg) # {}
                    THEN resp' = Resp("Mark", req[p].arg, 400, Error("DuplicateRecord"))
                    ELSE pc'[p] = "mark_insert"
            /\ (pc[p] = "mark_insert" /\ Resumed(p)) =>
                 /\ employees' = employees
                 /\ \E r \in attendances' :
                      /\ r \notin attendances
                      /\ attendances' = attendances \cup {r}
                      /\ r.employee_id = req[p].arg.employee_id
                      /\ DateOfText(r.date) = req[p].arg.date
                      /\ r.status = req[p].arg.status
                 /\ pc'[p] = "mark_reread"
            /\ (pc[p] = "mark_reread" /\ Resumed(p)) =>
                 /\ StoreUnchanged
                 /\ resp'.op = "Mark" /\ resp'.code = 201
                 /\ resp'.arg = req[p].arg]_vars

\* after a Mark of an employee was refused as a duplicate, a Mark of the same
\* employee for another date has succeeded: the employee has two records
C5_Witness ==
    \E t \in IdTexts :
        /\ stage[t].at = "rejected"
        /\ resp.op = "Mark" /\ resp.code = 201 /\ resp.arg.employee_id = t
        /\ Cardinality(Matching(attendances, "employee_id", t)) = 2

\* Add has returned identifier t and no Delete of t has returned since
Live(t) == stage[t].at \in {"added", "marked", "rejected"}

\* C6: requests served one at a time.  A Get on the id a successful Add
\* returned, with no Delete of that id in between, is answered 200 with a
\* record whose employee_id, full_name, email and department are the
\* candidate's, whose id is the id Add returned, and whose created_at is the
\* time stamp Add returned.
C6_AddThenGet ==
    \A t \in IdTexts :
        (resp.op = "Get" /\ resp.arg = t /\ Live(t)) =>
            /\ resp.code = 200
            /\ resp.body.data.employee_id = stage[t].cand.employee_id
            /\ resp.body.data.full_name = stage[t].cand.full_name
            /\ resp.body.data.email = stage[t].cand.email
            /\ resp.body.data.department = stage[t].cand.department
            /\ resp.body.data._id = t
            /\ resp.body.data.created_at = stage[t].data.created_at
            /\ resp.body.data.created_at \in {StrftimeTs(UtcNow(n)) : n \in 1..empSeq}

\* a Get of an identifier that Add returned, after a Mark of it
C6_Witness ==
    resp.op = "Get" /\ stage[resp.arg].at = "marked" /\ resp.code = 200

\* C8: requests served one at a time.  A Mark whose status is neither
\* Present nor Absent is answered with a 4xx error and leaves the attendances
\* as they are, also when the employee exists and has no record for the date;
\* every stored attendance record has status Present or Absent.
C8_InvalidStatusRejected ==
    [][/\ (Arriving.op = "Mark" /\ Arriving.arg.status \notin {"Present", "Absent"}) =>
            /\ resp'.op = "Mark" /\ resp'.arg = Arriving.arg
            /\ resp'.code \in 400..499
            /\ StoreUnchanged
       /\ \A r \in attendances' : r.status \in {"Present", "Absent"}]_vars

\* a Mark with another status was refused although its employee exists and
\* has no record for that date
C8_Witness ==
    /\ resp.op = "Mark" /\ resp.code \in 400..499
    /\ resp.arg.status \notin {"Present", "Absent"}
    /\ IsValid(resp.arg.employee_id)
    /\ \E e \in employees : e._id = ObjectId(resp.arg.employee_id)
    /\ SameDay(resp.arg) = {}

\* the identifier a request names
IdOf(a) == IF a.op = "Mark" THEN a.arg.employee_id ELSE a.arg

\* C7: Get, Delete, Mark and ListForEmployee treat the identifier alike: a
\* request with a malformed identifier is answered 400 InvalidIdentifier, one
\* with a well-formed identifier of no employee 404 NotFound, and neither
\* changes a collection.
C7_IdentifierHandling ==
    [][Arriving.op \in {"Get", "Delete", "Mark", "ListForEmployee"} =>
          /\ ~IsValid(IdOf(Arriving)) =>
                /\ resp' = Resp(Arriving.op, Arriving.arg, 400, Error("InvalidIdentifier"))
                /\ StoreUnchanged
          /\ (/\ IsValid(IdOf(Arriving))
              /\ ~\E e \in employees : e._id = ObjectId(IdOf(Arriving))) =>
                /\ resp' = Resp(Arriving.op, Arriving.arg, 404, Error("NotFound"))
                /\ StoreUnchanged]_vars

\* C9 as claimed: after Add, a successful Mark, a duplicate Mark refused
\* with 400 and the Delete of that employee, the attendance listing for that
\* employee id is answered with an empty list of records.
C9_ListAfterDeleteEmpty ==
    \A t \in IdTexts :
        (stage[t].at = "gone" /\ resp.op = "ListForEmployee" /\ resp.arg = t) =>
            resp.code = 200 /\ resp.body.data = <<>>

\* C9 as amended: after Add, a successful Mark, a duplicate Mark refused with
\* 400 and the Delete of that employee, the attendance listing for that
\* employee id is answered 404 NotFound: it returns no list at all.
C9_ListAfterDeleteNotFound ==
    \A t \in IdTexts :
        (stage[t].at = "gone" /\ resp.op = "ListForEmployee" /\ resp.arg = t) =>
            resp = Resp("ListForEmployee", t, 404, Error("NotFound"))

\* the listing for the employee id is answered after the whole sequence
C9_Witness ==
    resp.op = "ListForEmployee" /\ stage[resp.arg].at = "gone"

\* YYYYMMDD of a calendar date
DateKey(d) == d.y * 10000 + d.m * 100 + d.d

\* the response data lists exactly the stored records want, each with its own
\* employee_id, date and status, count is their number, and no record comes
\* before one of a later calendar date
Lists(body, want) ==
    /\ Len(body.data) = Cardinality(want)
    /\ body.count = Len(body.data)
    /\ \A r \in want : \E i \in 1..Len(body.data) :
          /\ body.data[i]._id = Str(r._id)
          /\ body.data[i].employee_id = r.employee_id
          /\ body.data[i].date = r.date
          /\ body.data[i].status = r.status
    /\ \A i \in 1..Len(body.data) : \A j \in 1..Len(body.data) :
          i < j => DateKey(DateOfText(body.data[i].date))
                      >= DateKey(DateOfText(body.data[j].date))

\* C10 as claimed: requests served one at a time.  Attendance List with a
\* date filter returns exactly the stored records whose date text equals the
\* filter, and without a filter every stored record; count is the number of
\* records returned and they are ordered by date, latest first.
C10_ListFilterExact ==
    resp.op = "List" =>
        Lists(resp.body,
              IF resp.arg.set
              THEN {r \in attendances : r.date = resp.arg.text}
              ELSE attendances)

\* C10 as amended: requests served one at a time.  Attendance List with a
\* date filter that is not empty returns exactly the stored records whose date
\* text equals the filter; without a filter, or with the empty filter
\* (?date=), it returns every stored record; count is the number of records
\* returned and they are ordered by date, latest first.
C10_ListFilterNonEmpty ==
    resp.op = "List" =>
        Lists(resp.body,
              IF resp.arg.set /\ resp.arg.text # <<>>
              THEN {r \in attendances : r.date = resp.arg.text}
              ELSE attendances)

\* a List filtered by a date returned one of the two stored records
C10_Witness ==
    /\ resp.op = "List" /\ resp.arg.set /\ resp.arg.text # <<>>
    /\ Len(resp.body.data) = 1
    /\ Cardinality(attendances) = 2

\* C11: a Mark is checked in the order identifier well-formedness, employee
\* existence, status validity, duplicate (employee_id, date), and is answered
\* with the error of the first check that fails: a malformed identifier
\* gives InvalidIdentifier and a well-formed identifier of no employee gives
\* NotFound, whatever the status; a status that is neither Present nor
\* Absent gives ValidationError when the employee exists; a record of the
\* same employee_id and date gives DuplicateRecord.
C11_MarkCheckOrder ==
    [][/\ Arriving.op = "Mark" =>
            IF ~IsValid(Arriving.arg.employee_id)
            THEN resp' = Resp("Mark", Arriving.arg, 400, Error("InvalidIdentifier"))
            ELSE IF ~\E e \in employees : e._id = ObjectId(Arriving.arg.employee_id)
            THEN resp' = Resp("Mark", Arriving.arg, 404, Error("NotFound"))
            ELSE IF Arriving.arg.status \notin {"Present", "Absent"}
            THEN /\ resp'.op = "Mark" /\ resp'.arg = Arriving.arg
                 /\ resp'.body = Error("ValidationError")
            ELSE \E p \in Procs : Suspended(p) /\ pc'[p] = "mark_existing"
       /\ \A p \in Procs :
            (pc[p] = "mark_existing" /\ Resumed(p) /\ SameDay(req[p].arg) # {}) =>
                resp' = Resp("Mark", req[p].arg, 400, Error("DuplicateRecord"))]_vars

\* C12: in every reachable state in which no Delete is between its employee
\* deletion and its attendance deletion, under any interleaving of Mark and
\* Delete requests, the employee_id of every attendance record is the
\* identifier of an employee that is in the employees collection.
C12_NoOrphanRecords ==
    (\A p \in Procs : pc[p] # "del_attendances") =>
        \A r \in attendances :
            /\ IsValid(r.employee_id)
            /\ \E e \in employees : e._id = ObjectId(r.employee_id)

\* C13: records are write-once.  No step changes a field of an employee
\* record or of an attendance record that stays in the store (created_at and
\* marked_at included), and an attendance record leaves the store only in the
\* attendance deletion of a Delete that named the employee whose id the
\* record carries.
C13_WriteOnce ==
    [][/\ \A e \in employees : \A e2 \in employees' : e2._id = e._id => e2 = e
       /\ \A r \in attendances : \A r2 \in attendances' : r2._id = r._id => r2 = r
       /\ \A r \in attendances \ attendances' :
            \E p \in Procs :
                /\ pc[p] = "del_attendances" /\ Resumed(p)
                /\ req[p].op = "Delete"
                /\ ObjectId(req[p].arg) = ObjectId(r.employee_id)]_vars

\* a Delete has removed the record of its employee and left the record of
\* another employee, and the employee it belongs to, in the store
C13_Witness ==
    /\ resp.op = "Delete" /\ resp.code = 200
    /\ attSeq = 2 /\ Cardinality(attendances) = 1
    /\ \A r \in attendances :
        /\ ObjectId(r.employee_id) # ObjectId(resp.arg)
        /\ \E e \in employees : e._id = ObjectId(r.employee_id)

\* C14: Deleted is terminal.  Once a Delete of an identifier has returned
\* success, no step makes an employee with that id exist again, and every
\* Get, Delete, Mark or ListForEmployee of that identifier that arrives
\* afterwards is answered 404 NotFound.
C14_DeletedIsTerminal ==
    [][\A t \in IdTexts : Deleted(t) =>
          /\ ~\E e \in employees' : e._id = ObjectId(t)
          /\ (/\ Arriving.op \in {"Get", "Delete", "Mark", "ListForEmployee"}
              /\ IdOf(Arriving) = t) =>
                resp' = Resp(Arriving.op, Arriving.arg, 404, Error("NotFound"))]_vars

\* C15: a successful Delete takes two separate store steps in a fixed order.
\* The first removes the employee record and leaves the attendance records;
\* the second, taken with the employee gone, removes the attendance records
\* that carry the identifier and answers 200.  No other step removes an
\* employee, no Delete removes records while its employee is in the store,
\* and a Delete that is refused for its identifier (400) or for want of the
\* employee (404) takes neither step: it ends with the store unchanged.
C15_DeleteInTwoSteps ==
    [][/\ \A p \in Procs :
            /\ (pc[p] = "del_employee" /\ Resumed(p)) =>
                 /\ employees' = {e \in employees : e._id # ObjectId(req[p].arg)}
                 /\ attendances' = attendances
                 /\ pc'[p] = "del_attendances"
            /\ (pc[p] = "del_attendances" /\ Resumed(p)) =>
                 /\ ~\E e \in employees : e._id = ObjectId(req[p].arg)
                 /\ employees' = employees
                 /\ attendances' = {r \in attendances : r.employee_id # req[p].arg}
                 /\ resp' = Resp("Delete", req[p].arg, 200, resp'.body)
            /\ (req'[p].op = "Delete" /\ pc'[p] = "del_attendances") =>
                 ~\E e \in employees' : e._id = ObjectId(req'[p].arg)
       /\ employees' # employees /\ ~(employees \subseteq employees') =>
            \E p \in Procs : pc[p] = "del_employee" /\ Resumed(p)
       /\ (resp'.op = "Delete" /\ resp'.code = 200) =>
            \E p \in Procs : pc[p] = "del_attendances" /\ Resumed(p)
       /\ Arriving.op = "Delete" =>
            /\ StoreUnchanged
            /\ (resp'.op = "Delete" /\ resp'.code \in {400, 404}) => pc' = pc
            /\ (~IsValid(Arriving.arg)
                  \/ ~\E e \in employees : e._id = ObjectId(Arriving.arg)) =>
                 resp'.op = "Delete" /\ resp'.code \in {400, 404}]_vars

\* between the two steps of a Delete: the employee is gone and a record that
\* carries its identifier is still in the store
C15_Witness ==
    \E p \in Procs :
        /\ pc[p] = "del_attendances"
        /\ ~\E e \in employees : e._id = ObjectId(req[p].arg)
        /\ Matching(attendances, "employee_id", req[p].arg) # {}

\* the employees in the store that the employee_id text of a record names
Referenced(text) ==
    IF IsValid(text) THEN {e \in employees : e._id = ObjectId(text)} ELSE {}

\* C16: attendance List is answered 200 also when a record references an
\* employee that is not in the store.  Such a record is listed with
\* employee_name "Unknown" and employee_details fields "N/A"; every listed
\* record whose employee is in the store carries that employee's full_name,
\* employee_id and department.
C16_ListJoinsOrDegrades ==
    resp.op = "List" =>
        /\ resp.code = 200
        /\ \A i \in 1..Len(resp.body.data) :
            LET rec == resp.body.data[i]
            IN IF Referenced(rec.employee_id) = {}
               THEN /\ rec.employee_name = "Unknown"
                    /\ rec.employee_details = [employee_id |-> "N/A", department |-> "N/A"]
               ELSE \A e \in Referenced(rec.employee_id) :
                    /\ rec.employee_name = e.full_name
                    /\ rec.employee_details =
                           [employee_id |-> e.employee_id, department |-> e.department]

\* C17: requests served one at a time.  The employee_id stored in every
\* attendance record is the canonical text of the id of the employee it
\* references (the text str gives, the one the cascade filter, the duplicate
\* lookup, the filter of ListForEmployee and the join key of List compare
\* with); so no two records reference the same employee on the same date,
\* and when a Delete has returned success no record that references its
\* employee is left, in whichever well-formed spelling the requests named it.
C17_CanonicalEmployeeId ==
    /\ \A r \in attendances :
        IsValid(r.employee_id) /\ r.employee_id = Str(ObjectId(r.employee_id))
    /\ \A r1 \in attendances : \A r2 \in attendances :
        (ObjectId(r1.employee_id) = ObjectId(r2.employee_id) /\ r1.date = r2.date)
            => r1 = r2
    /\ (resp.op = "Delete" /\ resp.code = 200) =>
        \A r \in attendances : ObjectId(r.employee_id) # ObjectId(resp.arg)

\* the error kinds of C18, the read operations, and the awaits a handler
\* reaches only by a store operation that writes
ListedErrors ==
    {Error(k) : k \in {"InvalidIdentifier", "NotFound", "ValidationError",
                       "DuplicateKeyError", "DuplicateRecord"}}
Reads == {"EmployeeList", "Get", "List", "ListForEmployee"}
AfterWrite == {"add_reread", "mark_reread", "del_attendances"}

\* C18: frame effects.  A collection changes only in a step that takes its
\* handler to, or from, an await behind a write.  A request answered with
\* InvalidIdentifier, NotFound, ValidationError, DuplicateKeyError or
\* DuplicateRecord has taken no such step and its answering step leaves both
\* collections unchanged; every step of an employee List, Get, attendance
\* List or ListForEmployee leaves both unchanged.  An Add changes the store
\* in its insert step alone, which adds exactly one employee and leaves
\* attendances; a Mark in its insert step alone, which adds exactly one
\* attendance record and leaves employees; each is answered 201 only after
\* that step.
C18_FrameEffects ==
    [][/\ ~StoreUnchanged =>
            \E p \in Procs :
                Resumed(p) /\ (pc[p] \in AfterWrite \/ pc'[p] \in AfterWrite)
       /\ (resp'.op # "none" /\ resp'.body \in ListedErrors) =>
            /\ StoreUnchanged
            /\ \A p \in Procs : Resumed(p) => pc[p] \notin AfterWrite
       /\ (Arriving.op \in Reads \/ \E p \in Procs : Resumed(p) /\ req[p].op \in Reads)
            => StoreUnchanged
       /\ Arriving.op \in {"Add", "Mark"} => StoreUnchanged
       /\ \A p \in Procs : (Resumed(p) /\ req[p].op = "Add") =>
            /\ IF pc[p] = "add_insert"
               THEN /\ \E e \in employees' :
                        e \notin employees /\ employees' = employees \cup {e}
                    /\ attendances' = attendances
               ELSE StoreUnchanged
            /\ (resp'.op = "Add" /\ resp'.code = 201) => pc[p] = "add_reread"
       /\ \A p \in Procs : (Resumed(p) /\ req[p].op = "Mark") =>
            /\ IF pc[p] = "mark_insert"
               THEN /\ \E r \in attendances' :
                        r \notin attendances /\ attendances' = attendances \cup {r}
                    /\ employees' = employees
               ELSE StoreUnchanged
            /\ (resp'.op = "Mark" /\ resp'.code = 201) => pc[p] = "mark_reread"]_vars

\* a Mark was refused as a duplicate while the store holds two employees and
\* the record that made it a duplicate
C18_Witness ==
    /\ resp.op = "Mark" /\ resp.body = Error("DuplicateRecord")
    /\ Cardinality(employees) = 2
    /\ SameDay(resp.arg) # {}

====
